---- MODULE Spec2Model ----
(***************************************************************************)
(* BytesFormat: a codec between a byte sequence and its text under a       *)
(* numeral format (radix, digit width, case, prefix, suffix, separator).   *)
(*                                                                         *)
(* A JavaScript string is modelled as a sequence of one-character strings, *)
(* so "xFF" is <<"x", "F", "F">> and "" is << >>.                          *)
(* A raw (caller supplied) option value carries its JavaScript type, so a  *)
(* missing field, 1.5 and "1" are different values.                        *)
(***************************************************************************)
EXTENDS Integers, Sequences, FiniteSets, TLC

VARIABLES
    variant,    \* "lenient" (part_000) or "strict" (part_001) option resolution
    op,         \* the call made: "format", "parse", or "roundtrip"
    raw,        \* the options argument as the caller gave it
    bytes,      \* the byte sequence given to format
    text,       \* the string given to parse
    pc,         \* "ready", "formatted", "parsed", "threw"
    opts,       \* the resolved options of the last call
    str,        \* the string format returned
    units,      \* byteStringArray of the last parse call
    ints,       \* the integers _parseByte returned, in order
    out,        \* the Uint8Array parse returned
    examined,   \* the number of units _parseByte was called on
    err         \* the error thrown, NoError when none

vars == <<variant, op, raw, bytes, text, pc, opts, str, units, ints, out,
          examined, err>>

----------------------------------------------------------------------------
(* Bounds of the model *)

\* longest byte sequence given to format
MaxLen == 2
\* longest generated text given to parse
MaxTextLen == 3
\* largest raw digit width tried
MaxWidth == 4

----------------------------------------------------------------------------
(* JavaScript values *)

Undefined == [type |-> "undefined"]
Num(i, f) == [type |-> "number", int |-> i, frac |-> f]
Str(s) == [type |-> "string", value |-> s]
Bool(b) == [type |-> "boolean", value |-> b]

NoError == [name |-> "", message |-> "", work |-> << >>]
Error(name, message, work) == [name |-> name, message |-> message, work |-> work]

LowerDigits == <<"0", "1", "2", "3", "4", "5", "6", "7", "8", "9",
                 "a", "b", "c", "d", "e", "f">>
UpperDigits == <<"0", "1", "2", "3", "4", "5", "6", "7", "8", "9",
                 "A", "B", "C", "D", "E", "F">>

\* String.prototype.toUpperCase on one character
UpperChar(c) ==
    IF \E i \in 1..16 : LowerDigits[i] = c
    THEN UpperDigits[CHOOSE i \in 1..16 : LowerDigits[i] = c]
    ELSE IF c = "x" THEN "X" ELSE IF c = "y" THEN "Y" ELSE c

RECURSIVE toUpperCase(_)
toUpperCase(s) ==
    IF s = << >> THEN << >> ELSE <<UpperChar(Head(s))>> \o toUpperCase(Tail(s))

\* Number.prototype.toString(radix) for a non-negative integer
RECURSIVE toString(_, _)
toString(n, radix) ==
    IF n < radix THEN <<LowerDigits[n + 1]>>
    ELSE toString(n \div radix, radix) \o <<LowerDigits[(n % radix) + 1]>>

RECURSIVE Repeat(_, _)
Repeat(c, n) == IF n <= 0 THEN << >> ELSE <<c>> \o Repeat(c, n - 1)

\* a padStart that adds nothing
MutpadStart_None(s, targetLength) == s

\* String.prototype.padStart(targetLength, "0")
padStart(s, targetLength) ==
    IF Len(s) >= targetLength THEN s
    ELSE Repeat("0", targetLength - Len(s)) \o s

\* String.prototype.substring(start, end), 0-based, end exclusive
substring(s, start, end) ==
    LET a == IF start < 0 THEN 0 ELSE IF start > Len(s) THEN Len(s) ELSE start
        b == IF end < 0 THEN 0 ELSE IF end > Len(s) THEN Len(s) ELSE end
        lo == IF a <= b THEN a ELSE b
        hi == IF a <= b THEN b ELSE a
    IN SubSeq(s, lo + 1, hi)

startsWith(s, p) == Len(p) <= Len(s) /\ SubSeq(s, 1, Len(p)) = p
endsWith(s, p) == Len(p) <= Len(s) /\ SubSeq(s, Len(s) - Len(p) + 1, Len(s)) = p

\* a split that drops an empty last piece
RECURSIVE Mutsplit_DropTrailingEmpty(_, _)
Mutsplit_DropTrailingEmpty(s, sep) ==
    LET hits == {i \in 1..(Len(s) - Len(sep) + 1) :
                    SubSeq(s, i, i + Len(sep) - 1) = sep}
    IN IF hits = {} THEN <<s>>
       ELSE LET i == CHOOSE h \in hits : \A g \in hits : h <= g
                rest == SubSeq(s, i + Len(sep), Len(s))
            IN <<SubSeq(s, 1, i - 1)>>
               \o (IF rest = << >> THEN << >>
                   ELSE Mutsplit_DropTrailingEmpty(rest, sep))

\* String.prototype.split(separator) for a non-empty separator
RECURSIVE split(_, _)
split(s, sep) ==
    LET hits == {i \in 1..(Len(s) - Len(sep) + 1) :
                    SubSeq(s, i, i + Len(sep) - 1) = sep}
    IN IF hits = {} THEN <<s>>
       ELSE LET i == CHOOSE h \in hits : \A g \in hits : h <= g
            IN <<SubSeq(s, 1, i - 1)>>
               \o split(SubSeq(s, i + Len(sep), Len(s)), sep)

\* Array.prototype.join(separator)
RECURSIVE join(_, _)
join(arr, sep) ==
    IF Len(arr) = 0 THEN << >>
    ELSE IF Len(arr) = 1 THEN arr[1]
    ELSE arr[1] \o sep \o join(Tail(arr), sep)

\* the value of a digit character in the radix, -1 when it is none
DigitValue(c, radix) ==
    IF \E i \in 1..radix : LowerDigits[i] = c \/ UpperDigits[i] = c
    THEN (CHOOSE i \in 1..radix : LowerDigits[i] = c \/ UpperDigits[i] = c) - 1
    ELSE -1

\* Number.parseInt(string, radix) on a string without sign, whitespace or
\* 0x marker: the value of the longest prefix of digits, NaN (-1) when empty
RECURSIVE parseIntFrom(_, _, _, _)
parseIntFrom(s, radix, i, acc) ==
    IF i > Len(s) \/ DigitValue(s[i], radix) < 0
    THEN (IF i = 1 THEN -1 ELSE acc)
    ELSE parseIntFrom(s, radix, i + 1, acc * radix + DigitValue(s[i], radix))

parseInt(s, radix) == parseIntFrom(s, radix, 1, 0)

\* the conversion of a number stored into a Uint8Array element
ToUint8(n) == IF n < 0 THEN 0 ELSE n % 256

----------------------------------------------------------------------------
(* src/src/x.ts *)

_isPositiveInteger(value) ==
    IF value.type = "number"
    THEN value.frac = 0 /\ value.int > 0
    ELSE FALSE

RECURSIVE _segmentFrom(_, _, _)
_segmentFrom(s, segmentCharCount, i) ==
    IF i < Len(s)
    THEN <<substring(s, i, i + segmentCharCount)>>
         \o _segmentFrom(s, segmentCharCount, i + segmentCharCount)
    ELSE << >>

\* a segmentation that drops a short trailing segment
RECURSIVE Mut_segmentFull(_, _, _)
Mut_segmentFull(s, segmentCharCount, i) ==
    IF i + segmentCharCount <= Len(s)
    THEN <<substring(s, i, i + segmentCharCount)>>
         \o Mut_segmentFull(s, segmentCharCount, i + segmentCharCount)
    ELSE << >>

Mut_segmentString_DropShort(s, segmentCharCount) ==
    Mut_segmentFull(s, segmentCharCount, 0)

_segmentString(s, segmentCharCount) == _segmentFrom(s, segmentCharCount, 0)

----------------------------------------------------------------------------
(* Option resolution *)

_FORMAT_RADIXES == {2, 8, 10, 16}

\* part_001: typeof value === "number" && _FORMAT_RADIXES.includes(value)
_isFormatRadix(value) ==
    IF value.type = "number"
    THEN value.frac = 0 /\ value.int \in _FORMAT_RADIXES
    ELSE FALSE

\* part_000: Object.values(Radix).includes(options.radix)
RadixIncludes(value) ==
    value.type = "number" /\ value.frac = 0 /\ value.int \in _FORMAT_RADIXES

\* a floor table with two octal digits
Mut_minPaddedLengthOf_Octal2(radix) ==
    CASE radix = 2 -> 8
      [] radix = 8 -> 2
      [] radix = 10 -> 3
      [] radix = 16 -> 2

_minPaddedLengthOf(radix) ==
    CASE radix = 2 -> 8
      [] radix = 8 -> 3
      [] radix = 10 -> 3
      [] radix = 16 -> 2

\* SafeInteger.fromNumber(source, {fallback, clampRange: [min, MAX_SAFE_INTEGER]})
\* of the integer library: a value that is neither a number nor undefined is a
\* TypeError, undefined and a non-integer give the fallback, an integer is
\* clamped into the range.
fromNumber(source, fallback, min) ==
    IF source.type = "undefined" THEN [threw |-> FALSE, value |-> fallback]
    ELSE IF source.type # "number"
         THEN [threw |-> TRUE, value |-> fallback]
    ELSE IF source.frac # 0 THEN [threw |-> FALSE, value |-> fallback]
    ELSE IF source.int < min THEN [threw |-> FALSE, value |-> min]
    ELSE [threw |-> FALSE, value |-> source.int]

\* typeof v === "boolean" ? v : false, and typeof v === "string" ? v : ""
BooleanOr(v, default) == IF v.type = "boolean" THEN v.value ELSE default
StringOr(v, default) == IF v.type = "string" THEN v.value ELSE default

Resolved(radix, minIntegralDigits, options) ==
    [threw |-> FALSE,
     error |-> NoError,
     options |-> [radix |-> radix,
                  minIntegralDigits |-> minIntegralDigits,
                  lowerCase |-> BooleanOr(options.lowerCase, FALSE),
                  prefix |-> StringOr(options.prefix, << >>),
                  suffix |-> StringOr(options.suffix, << >>),
                  separator |-> StringOr(options.separator, << >>)]]

NoOptions ==
    [radix |-> 0, minIntegralDigits |-> 0, lowerCase |-> FALSE,
     prefix |-> << >>, suffix |-> << >>, separator |-> << >>]

Rejected(field) ==
    [threw |-> TRUE, error |-> Error("TypeError", field, << >>),
     options |-> NoOptions]

\* a lenient resolution whose fallback radix is 10
Mut_resolveFormatOptions_Fallback10(options) ==
    LET radix == IF RadixIncludes(options.radix) THEN options.radix.int ELSE 10
        floor == _minPaddedLengthOf(radix)
        coerced == fromNumber(options.minIntegralDigits, floor, floor)
        minIntegralDigits == IF coerced.threw THEN floor ELSE coerced.value
    IN Resolved(radix, minIntegralDigits, options)

\* part_000 (lenient): every malformed field falls back
_resolveFormatOptions(options) ==
    LET radix == IF RadixIncludes(options.radix) THEN options.radix.int ELSE 16
        floor == _minPaddedLengthOf(radix)
        coerced == fromNumber(options.minIntegralDigits, floor, floor)
        minIntegralDigits == IF coerced.threw THEN floor ELSE coerced.value
    IN Resolved(radix, minIntegralDigits, options)

\* part_001 (strict): radix and width are validated first; the width field is
\* named paddedLength in that revision
_resolveFormatOptionsStrict(options) ==
    IF ~(_isFormatRadix(options.radix) \/ options.radix = Undefined)
    THEN Rejected("radix")
    ELSE LET radix == IF _isFormatRadix(options.radix)
                      THEN options.radix.int ELSE 16
         IN IF ~(_isPositiveInteger(options.minIntegralDigits)
                 \/ options.minIntegralDigits = Undefined)
            THEN Rejected("paddedLength")
            ELSE LET minPaddedLength == _minPaddedLengthOf(radix)
                     paddedLength == fromNumber(options.minIntegralDigits,
                                                minPaddedLength, minPaddedLength)
                 IN Resolved(radix, paddedLength.value, options)

Resolve(v, options) ==
    IF v = "strict" THEN _resolveFormatOptionsStrict(options)
    ELSE _resolveFormatOptions(options)

----------------------------------------------------------------------------
(* Per-byte and document-level codec (part_001) *)

\* a pattern whose hexadecimal letters follow the lowerCase option
Mut_createByteRegex_CaseOfOption(resolvedOptions) ==
    LET charsPattern ==
            CASE resolvedOptions.radix = 2 -> {"0", "1"}
              [] resolvedOptions.radix = 8 ->
                    {"0", "1", "2", "3", "4", "5", "6", "7"}
              [] resolvedOptions.radix = 10 ->
                    {"0", "1", "2", "3", "4", "5", "6", "7", "8", "9"}
              [] resolvedOptions.radix = 16 ->
                    {"0", "1", "2", "3", "4", "5", "6", "7", "8", "9"}
                    \cup (IF resolvedOptions.lowerCase
                          THEN {"a", "b", "c", "d", "e", "f"}
                          ELSE {"A", "B", "C", "D", "E", "F"})
        bodyLength == _minPaddedLengthOf(resolvedOptions.radix)
        paddingLength == resolvedOptions.minIntegralDigits - bodyLength
    IN [padding |-> IF paddingLength > 0 THEN paddingLength ELSE 0,
        chars |-> charsPattern,
        body |-> bodyLength]

\* the pattern ^[0]{paddingLength}charsPattern{bodyLength}$
_createByteRegex(resolvedOptions) ==
    LET charsPattern ==
            CASE resolvedOptions.radix = 2 -> {"0", "1"}
              [] resolvedOptions.radix = 8 ->
                    {"0", "1", "2", "3", "4", "5", "6", "7"}
              [] resolvedOptions.radix = 10 ->
                    {"0", "1", "2", "3", "4", "5", "6", "7", "8", "9"}
              [] resolvedOptions.radix = 16 ->
                    {"0", "1", "2", "3", "4", "5", "6", "7", "8", "9",
                     "A", "B", "C", "D", "E", "F",
                     "a", "b", "c", "d", "e", "f"}
        bodyLength == _minPaddedLengthOf(resolvedOptions.radix)
        paddingLength == resolvedOptions.minIntegralDigits - bodyLength
    IN [padding |-> IF paddingLength > 0 THEN paddingLength ELSE 0,
        chars |-> charsPattern,
        body |-> bodyLength]

\* RegExp.prototype.test for the patterns _createByteRegex builds
test(byteRegex, s) ==
    /\ Len(s) = byteRegex.padding + byteRegex.body
    /\ \A i \in 1..byteRegex.padding : s[i] = "0"
    /\ \A i \in (byteRegex.padding + 1)..Len(s) : s[i] \in byteRegex.chars

\* the outcome of _parseByte: the integer returned or the error thrown
Returned(integer) == [threw |-> FALSE, value |-> integer, error |-> NoError]
Thrown(error) == [threw |-> TRUE, value |-> -1, error |-> error]

\* _parseByte with the suffix checked on the whole unit before the prefix
Mut_parseByte_SuffixFirst(formatted, options, byteRegex) ==
    IF Len(options.suffix) > 0 /\ ~endsWith(formatted, options.suffix)
    THEN Thrown(Error("TypeError", "unsuffixed", << >>))
    ELSE
      LET work1 == IF Len(options.suffix) > 0
                   THEN substring(formatted, 0,
                                  Len(formatted) - Len(options.suffix))
                   ELSE formatted
      IN IF Len(options.prefix) > 0 /\ ~startsWith(work1, options.prefix)
         THEN Thrown(Error("TypeError", "unprefixed", << >>))
         ELSE
           LET work == IF Len(options.prefix) > 0
                       THEN substring(work1, Len(options.prefix), Len(work1))
                       ELSE work1
           IN IF ~test(byteRegex, work)
              THEN Thrown(Error("TypeError", "parse error", work))
              ELSE Returned(parseInt(work, options.radix))

_parseByte(formatted, options, byteRegex) ==
    IF Len(options.prefix) > 0 /\ ~startsWith(formatted, options.prefix)
    THEN Thrown(Error("TypeError", "unprefixed", << >>))
    ELSE
      LET work1 == IF Len(options.prefix) > 0
                   THEN substring(formatted, Len(options.prefix), Len(formatted))
                   ELSE formatted
      IN IF Len(options.suffix) > 0 /\ ~endsWith(work1, options.suffix)
         THEN Thrown(Error("TypeError", "unsuffixed", << >>))
         ELSE
           LET work == IF Len(options.suffix) > 0
                       THEN substring(work1, 0, Len(work1) - Len(options.suffix))
                       ELSE work1
           IN IF ~test(byteRegex, work)
              THEN Thrown(Error("TypeError", "parse error", work))
              ELSE Returned(parseInt(work, options.radix))

\* Uint8Array.from(byteStringArray, mapFn): mapFn is applied to the elements
\* in index order and the first error it throws ends the call
\* a mapping that goes on after an error and reports the last one
RECURSIVE MutUint8ArrayFrom_LastError(_, _, _, _, _)
MutUint8ArrayFrom_LastError(byteStringArray, options, byteRegex, i, acc) ==
    IF i > Len(byteStringArray)
    THEN [threw |-> FALSE, error |-> NoError, ints |-> acc, examined |-> i - 1]
    ELSE LET r == _parseByte(byteStringArray[i], options, byteRegex)
             rest == MutUint8ArrayFrom_LastError(
                         byteStringArray, options, byteRegex, i + 1,
                         IF r.threw THEN acc ELSE Append(acc, r.value))
         IN IF r.threw /\ ~rest.threw
            THEN [threw |-> TRUE, error |-> r.error, ints |-> acc,
                  examined |-> Len(byteStringArray)]
            ELSE rest

RECURSIVE Uint8ArrayFrom(_, _, _, _, _)
Uint8ArrayFrom(byteStringArray, options, byteRegex, i, acc) ==
    IF i > Len(byteStringArray)
    THEN [threw |-> FALSE, error |-> NoError, ints |-> acc, examined |-> i - 1]
    ELSE LET r == _parseByte(byteStringArray[i], options, byteRegex)
         IN IF r.threw
            THEN [threw |-> TRUE, error |-> r.error, ints |-> acc, examined |-> i]
            ELSE Uint8ArrayFrom(byteStringArray, options, byteRegex, i + 1,
                                Append(acc, r.value))

\* the segment length of _parse without the suffix length
MutSplitUnits_NoSuffixLength(toParse, options) ==
    IF Len(options.separator) > 0
    THEN split(toParse, options.separator)
    ELSE _segmentString(toParse, options.minIntegralDigits + Len(options.prefix))

\* byteStringArray of _parse, and whether the empty-text early return is taken
SplitUnits(toParse, options) ==
    IF Len(options.separator) > 0
    THEN split(toParse, options.separator)
    ELSE _segmentString(toParse, options.minIntegralDigits + Len(options.prefix)
                                    + Len(options.suffix))

\* _parse without the early return for the empty text
MutEarlyReturn_Never(byteStringArray, options) == FALSE

EarlyReturn(byteStringArray, options) ==
    /\ Len(options.separator) > 0
    /\ Len(byteStringArray) = 1
    /\ byteStringArray[1] = << >>

_parse(toParse, options, byteRegex) ==
    LET byteStringArray == SplitUnits(toParse, options)
    IN IF EarlyReturn(byteStringArray, options)
       THEN [threw |-> FALSE, error |-> NoError, ints |-> << >>, examined |-> 0,
             units |-> byteStringArray]
       ELSE LET r == Uint8ArrayFrom(byteStringArray, options, byteRegex, 1, << >>)
            IN [threw |-> r.threw, error |-> r.error, ints |-> r.ints,
                examined |-> r.examined, units |-> byteStringArray]

\* _formatByte without the upper-casing step
Mut_formatByte_NoUpperCase(byte, options) ==
    options.prefix \o padStart(toString(byte, options.radix),
                               options.minIntegralDigits) \o options.suffix

_formatByte(byte, options) ==
    LET str0 == toString(byte, options.radix)
        str1 == IF options.lowerCase # TRUE THEN toUpperCase(str0) ELSE str0
        str2 == padStart(str1, options.minIntegralDigits)
    IN options.prefix \o str2 \o options.suffix

RECURSIVE MapFormatByte(_, _)
MapFormatByte(bs, options) ==
    IF bs = << >> THEN << >>
    ELSE <<_formatByte(Head(bs), options)>> \o MapFormatByte(Tail(bs), options)

_format(bs, options) == join(MapFormatByte(bs, options), options.separator)

RECURSIVE MapToUint8(_)
MapToUint8(ns) ==
    IF ns = << >> THEN << >> ELSE <<ToUint8(Head(ns))>> \o MapToUint8(Tail(ns))

----------------------------------------------------------------------------
(* Inputs *)

RECURSIVE SeqsUpTo(_, _)
SeqsUpTo(S, n) ==
    IF n = 0 THEN {<< >>}
    ELSE LET shorter == SeqsUpTo(S, n - 1)
         IN shorter \cup {Append(q, c) : q \in shorter, c \in S}

SampleBytes == {0, 10, 255}
ByteSeqs == SeqsUpTo(SampleBytes, MaxLen)
SingleBytes == {<<b>> : b \in 0..255}

TextChars == {"0", "F", "x"}
NamedTexts ==
    {<<"0", "3", "1", "1", "F">>,
     <<"x", "F", "F", "F", "E">>,
     <<"F", "F", "x", "F", "E">>,
     <<"x", "F", "F", "y", "F", "E">>,
     <<"F", "F", "x", "F", "E", "y">>,
     <<"F", "F", " ", " ", "F", "E">>,
     <<"f", "f", "F", "e">>,
     <<"f", "e">>,
     <<"a", "B", " ", " ", "c", "D">>,
     <<"x", "f", "E", "x", "0", "a">>,
     <<"F", "F", "F", "E", "F", "D", "F", "C",
       "0", "0", "0", "1", "0", "2", "0", "3">>,
     <<"f", "f", "f", "e", "f", "d", "f", "c",
       "0", "0", "0", "1", "0", "2", "0", "3">>,
     <<"7", "7", "7">>,
     <<"9", "9", "9">>,
     <<"0", "0", "7", "7", "7">>,
     <<"0", "0", "0", "0", "0", "0", "1", "0">>}
Texts == SeqsUpTo(TextChars, MaxTextLen) \cup NamedTexts

RawOptions(radixes, widths, cases, prefixes, suffixes, separators) ==
    [radix : radixes, minIntegralDigits : widths, lowerCase : cases,
     prefix : prefixes, suffix : suffixes, separator : separators]

\* the options the codec is exercised with
CodecOptions ==
    RawOptions({Num(r, 0) : r \in _FORMAT_RADIXES},
               {Undefined} \cup {Num(w, 0) : w \in 3..MaxWidth},
               {Undefined, Bool(TRUE)},
               {Undefined, Str(<<"x">>), Str(<<"0">>)},
               {Undefined, Str(<<"x">>), Str(<<"0">>)},
               {Undefined, Str(<<" ", " ">>), Str(<<"0">>), Str(<<"x">>)})

\* the options every byte value is exercised with
DigitOptions ==
    RawOptions({Undefined} \cup {Num(r, 0) : r \in _FORMAT_RADIXES},
               {Undefined} \cup {Num(w, 0) : w \in 2..MaxWidth},
               {Undefined, Bool(TRUE)},
               {Undefined}, {Undefined}, {Undefined})

\* a separator that overlaps itself, and texts around it
OverlapOptions ==
    RawOptions({Num(16, 0)}, {Undefined}, {Undefined, Bool(TRUE)},
               {Undefined}, {Undefined}, {Str(<<"A", "0", "A">>)})
OverlapTexts ==
    {<<"F", "F", "A", "0", "A", "0", "A">>,
     <<"F", "F", "A", "0", "A", "F", "E">>,
     <<"F", "F", "A", "0", "A">>,
     <<"A", "0", "A">>,
     <<"A", "0", "A", "A", "0", "A">>}

\* the raw radix and width values option resolution is exercised with:
\* missing, integers, 1.5 and 3.5, and the string "1"
OptionCases ==
    RawOptions({Undefined, Num(1, 5), Str(<<"1">>)}
                   \cup {Num(r, 0) : r \in {0, 1, 2, 8, 10, 15, 16}},
               {Undefined, Num(1, 5), Num(3, 5), Str(<<"1">>)}
                   \cup {Num(w, 0) : w \in 0..(MaxWidth + 5)},
               {Undefined, Bool(TRUE), Str(<<"x">>)},
               {Undefined, Str(<<"x">>)},
               {Undefined},
               {Undefined, Str(<<" ", " ">>)})

InitCall(options, byteSeqs, texts) ==
    /\ variant \in {"lenient", "strict"}
    /\ raw \in options
    /\ op \in {"format", "parse", "roundtrip"}
    /\ bytes \in (IF op = "parse" THEN {<< >>} ELSE byteSeqs)
    /\ text \in (IF op = "parse" THEN texts ELSE {<< >>})
    /\ pc = "ready"
    /\ opts = NoOptions
    /\ str = << >>
    /\ units = << >>
    /\ ints = << >>
    /\ out = << >>
    /\ examined = 0
    /\ err = NoError

Init ==
    \/ InitCall(CodecOptions, ByteSeqs, Texts)
    \/ InitCall(DigitOptions, SingleBytes, {})
    \/ InitCall(OverlapOptions, {}, OverlapTexts)

InitOptions ==
    InitCall(OptionCases, {<< >>, <<10>>}, {<< >>, <<"0", "A">>})

----------------------------------------------------------------------------
(* The calls *)

\* BytesFormat.format(bytes, options)
Format ==
    /\ pc = "ready"
    /\ op \in {"format", "roundtrip"}
    /\ LET r == Resolve(variant, raw)
       IN /\ opts' = r.options
          /\ err' = r.error
          /\ pc' = IF r.threw THEN "threw" ELSE "formatted"
          /\ str' = IF r.threw THEN << >> ELSE _format(bytes, r.options)
    /\ UNCHANGED <<variant, op, raw, bytes, text, units, ints, out, examined>>

\* the body of BytesFormat.parse(formattedBytes, options)
ParseCall(formattedBytes) ==
    LET r == Resolve(variant, raw)
    IN /\ opts' = r.options
       /\ IF r.threw
          THEN /\ err' = r.error
               /\ pc' = "threw"
               /\ UNCHANGED <<units, ints, out, examined>>
          ELSE LET p == _parse(formattedBytes, r.options,
                               _createByteRegex(r.options))
               IN /\ units' = p.units
                  /\ ints' = p.ints
                  /\ examined' = p.examined
                  /\ err' = p.error
                  /\ out' = IF p.threw THEN << >> ELSE MapToUint8(p.ints)
                  /\ pc' = IF p.threw THEN "threw" ELSE "parsed"

\* BytesFormat.parse(text, options)
Parse ==
    /\ pc = "ready"
    /\ op = "parse"
    /\ ParseCall(text)
    /\ UNCHANGED <<variant, op, raw, bytes, text, str>>

\* BytesFormat.parse(BytesFormat.format(bytes, options), options)
ParseFormatted ==
    /\ pc = "formatted"
    /\ op = "roundtrip"
    /\ text' = str
    /\ ParseCall(str)
    /\ UNCHANGED <<variant, op, raw, bytes, str>>

Next == Format \/ Parse \/ ParseFormatted

Spec == Init /\ [][Next]_vars

SpecOptions == InitOptions /\ [][Next]_vars

----------------------------------------------------------------------------
(* C10 *)

RECURSIVE Power(_, _)
Power(b, e) == IF e = 0 THEN 1 ELSE b * Power(b, e - 1)

\* the number of base-radix digits of n, and its i-th digit from the left
DigitCount(n, radix) == CHOOSE l \in 1..8 : Power(radix, l) > n /\ (l = 1 \/ Power(radix, l - 1) <= n)
DigitAt(n, radix, i) == (n \div Power(radix, DigitCount(n, radix) - i)) % radix

\* D: the digit string of b, upper-case unless lowerCase
ExpectedD(b, o) ==
    [i \in 1..DigitCount(b, o.radix) |->
        IF o.lowerCase THEN LowerDigits[DigitAt(b, o.radix, i) + 1]
        ELSE UpperDigits[DigitAt(b, o.radix, i) + 1]]

\* Z: the shortest run of "0" making Len(Z \o D) >= minIntegralDigits
ExpectedZ(b, o) ==
    LET missing == o.minIntegralDigits - DigitCount(b, o.radix)
    IN [i \in 1..(IF missing > 0 THEN missing ELSE 0) |-> "0"]

ExpectedUnit(b, o) == o.prefix \o ExpectedZ(b, o) \o ExpectedD(b, o) \o o.suffix

\* unit(b1) + separator + ... + unit(bn): a separator after every unit but the last
RECURSIVE ExpectedFormatFrom(_, _, _)
ExpectedFormatFrom(bs, o, k) ==
    IF k > Len(bs) THEN << >>
    ELSE ExpectedUnit(bs[k], o)
         \o (IF k < Len(bs) THEN o.separator ELSE << >>)
         \o ExpectedFormatFrom(bs, o, k + 1)

Plain(radix, width) ==
    [radix |-> radix, minIntegralDigits |-> width, lowerCase |-> FALSE,
     prefix |-> << >>, suffix |-> << >>, separator |-> << >>]

ExampleBytes == <<255, 254, 253, 252, 0, 1, 2, 3>>

FormatExamples ==
    /\ _format(ExampleBytes, Plain(16, 2))
         = <<"F","F","F","E","F","D","F","C","0","0","0","1","0","2","0","3">>
    /\ _format(ExampleBytes, Plain(10, 3))
         = <<"2","5","5","2","5","4","2","5","3","2","5","2",
             "0","0","0","0","0","1","0","0","2","0","0","3">>
    /\ _format(ExampleBytes, Plain(8, 3))
         = <<"3","7","7","3","7","6","3","7","5","3","7","4",
             "0","0","0","0","0","1","0","0","2","0","0","3">>
    /\ _format(ExampleBytes, Plain(16, 3))
         = <<"0","F","F","0","F","E","0","F","D","0","F","C",
             "0","0","0","0","0","1","0","0","2","0","0","3">>

\* C10: format returns the units of the bytes in order, joined by exactly n-1
\* separators, each unit being prefix + zero padding + digits + suffix.
C10_FormatResult ==
    /\ FormatExamples
    /\ (pc = "formatted" => str = ExpectedFormatFrom(bytes, opts, 1))

C10_Witness ==
    /\ pc = "formatted"
    /\ bytes = <<10, 255>>
    /\ opts.radix = 16
    /\ opts.minIntegralDigits = 3
    /\ opts.prefix = <<"x">>
    /\ opts.suffix = <<"0">>
    /\ opts.separator = <<" ", " ">>
    /\ str = <<"x","0","0","A","0"," "," ","x","0","F","F","0">>

----------------------------------------------------------------------------
(* C1 *)

Chars(s) == {s[i] : i \in 1..Len(s)}

\* the characters a unit of the configuration can contain
UnitChars(o) ==
    Chars(o.prefix) \cup Chars(o.suffix)
    \cup {(IF o.lowerCase THEN LowerDigits ELSE UpperDigits)[i] : i \in 1..o.radix}

\* the separator is empty or has a character that occurs in no unit
SeparatorDistinct(o) ==
    o.separator = << >> \/ \E c \in Chars(o.separator) : c \notin UnitChars(o)

RoundTripDone == op = "roundtrip" /\ pc \in {"parsed", "threw"}

\* C1 as stated: parse(format(bytes, opts), opts) returns bytes and does not
\* fail, for every configuration and every byte sequence.
C1_RoundTripAlways == RoundTripDone => (pc = "parsed" /\ out = bytes)

\* C1 amended: parse(format(bytes, opts), opts) returns bytes and does not fail
\* whenever the separator is empty or has a character that occurs in no unit
\* (not in the prefix, the suffix or the digits of the radix in the case used).
C1_RoundTrip ==
    (RoundTripDone /\ SeparatorDistinct(opts))
        => (pc = "parsed" /\ err = NoError /\ out = bytes)

\* digit affixes and a two-character separator around two bytes
C1_Witness ==
    /\ RoundTripDone
    /\ SeparatorDistinct(opts)
    /\ opts.prefix = <<"0">>
    /\ opts.suffix = <<"0">>
    /\ opts.separator = <<" ", " ">>
    /\ opts.radix = 10
    /\ bytes = <<10, 255>>
    /\ text = <<"0","0","1","0","0"," "," ","0","2","5","5","0">>
    /\ out = <<10, 255>>

----------------------------------------------------------------------------
(* C2 *)

ParseDone == op \in {"parse", "roundtrip"} /\ pc \in {"parsed", "threw"} /\ opts # NoOptions

\* C2: every integer _parseByte returns for a unit that passed the pattern
\* check lies in 0..255.
C2_DecodeInRange == ParseDone => \A i \in 1..Len(ints) : ints[i] \in 0..255

----------------------------------------------------------------------------
(* C3 *)

\* C3: format of the empty byte sequence is the empty string, and parse of the
\* empty string returns the empty byte sequence without an error, whatever the
\* configuration.
C3_EmptyInput ==
    /\ (pc = "formatted" /\ bytes = << >>) => str = << >>
    /\ (ParseDone /\ text = << >>)
          => (pc = "parsed" /\ err = NoError /\ out = << >> /\ examined = 0)

\* the empty string split on a non-empty separator is one empty unit
C3_Witness ==
    /\ op = "parse"
    /\ pc = "parsed"
    /\ text = << >>
    /\ opts.separator = <<" ", " ">>
    /\ opts.prefix = <<"x">>
    /\ units = << << >> >>
    /\ out = << >>

----------------------------------------------------------------------------
(* C7 *)

\* the outcome of per-byte decode on the i-th unit of the last parse
UnitOutcome(i) == _parseByte(units[i], opts, _createByteRegex(opts))
Malformed(i) == UnitOutcome(i).threw
SomeMalformed == \E i \in 1..Len(units) : Malformed(i)
Leftmost == CHOOSE i \in 1..Len(units) :
                Malformed(i) /\ \A j \in 1..(i - 1) : ~Malformed(j)
\* parse returned at once on the single empty unit of an empty text
ReturnedEarly == opts.separator # << >> /\ units = << << >> >>

\* C7: a parse over a text with malformed units throws the error of the
\* leftmost malformed unit, examines no unit to its right and returns nothing;
\* a parse that returns had no malformed unit.
C7_FirstFailure ==
    (ParseDone /\ ~ReturnedEarly) =>
        /\ (pc = "threw") = SomeMalformed
        /\ pc = "threw" =>
              /\ err = UnitOutcome(Leftmost).error
              /\ examined = Leftmost
              /\ Len(ints) = Leftmost - 1
              /\ out = << >>
        /\ pc = "parsed" => (examined = Len(units) /\ Len(out) = Len(units))

\* two malformed units of different classifications: the first decides
C7_Witness ==
    /\ op = "parse"
    /\ pc = "threw"
    /\ Len(units) = 2
    /\ Malformed(1) /\ Malformed(2)
    /\ UnitOutcome(1).error.message = "parse error"
    /\ UnitOutcome(2).error.message = "unprefixed"
    /\ err.message = "parse error"
    /\ examined = 1

----------------------------------------------------------------------------
(* C8 *)

HasPrefix(u, o) == o.prefix = << >> \/ startsWith(u, o.prefix)
HasSuffix(u, o) == o.suffix = << >> \/ endsWith(u, o.suffix)

PrefixX == [Plain(16, 2) EXCEPT !.prefix = <<"x">>]
SuffixX == [Plain(16, 2) EXCEPT !.suffix = <<"x">>]

\* C8: the unit a parse failed on is "unprefixed" when it lacks the prefix,
\* "unsuffixed" when it has the prefix and lacks the suffix, and a "parse
\* error" only when it has both; "FE" of "xFFFE" is unprefixed under prefix
\* "x" and "FE" of "FFxFE" is unsuffixed under suffix "x".
C8_ClassificationOrder ==
    /\ (ParseDone /\ pc = "threw") =>
          LET u == units[examined]
          IN /\ ~HasPrefix(u, opts) => err.message = "unprefixed"
             /\ (HasPrefix(u, opts) /\ ~HasSuffix(u, opts))
                   => err.message = "unsuffixed"
             /\ err.message = "parse error"
                   => (HasPrefix(u, opts) /\ HasSuffix(u, opts))
             /\ err.name = "TypeError"
    /\ (ParseDone /\ opts = PrefixX /\ text = <<"x", "F", "F", "F", "E">>)
          => (pc = "threw" /\ err.message = "unprefixed" /\ examined = 2)
    /\ (ParseDone /\ opts = SuffixX /\ text = <<"F", "F", "x", "F", "E">>)
          => (pc = "threw" /\ err.message = "unsuffixed" /\ examined = 2)

\* a unit that lacks both the prefix and the suffix
C8_Witness ==
    /\ op = "parse"
    /\ pc = "threw"
    /\ opts.prefix = <<"x">>
    /\ opts.suffix = <<"0">>
    /\ ~HasPrefix(units[examined], opts)
    /\ ~HasSuffix(units[examined], opts)
    /\ err.message = "unprefixed"

----------------------------------------------------------------------------
(* C9 *)

UnitWidth(o) == o.minIntegralDigits + Len(o.prefix) + Len(o.suffix)
UnderWidth == opts.separator = << >> /\ Len(text) % UnitWidth(opts) # 0
Trailing == SubSeq(text, Len(text) - (Len(text) % UnitWidth(opts)) + 1, Len(text))

\* C9: with an empty separator and a text whose length is no multiple of the
\* unit width, segmentation yields the short trailing unit and parse throws;
\* with empty affixes and well-formed units before it, the error is a "parse
\* error" naming the trailing substring.
C9_UnderWidth ==
    (op = "parse" /\ ParseDone /\ UnderWidth) =>
        /\ pc = "threw"
        /\ out = << >>
        /\ Len(units) = (Len(text) \div UnitWidth(opts)) + 1
        /\ units[Len(units)] = Trailing
        /\ err.message \in {"unprefixed", "unsuffixed", "parse error"}
        /\ (/\ opts.prefix = << >>
            /\ opts.suffix = << >>
            /\ \A i \in 1..(Len(units) - 1) : ~Malformed(i))
              => (/\ err.message = "parse error"
                  /\ err.work = Trailing
                  /\ examined = Len(units))

\* "0311F" at radix 10 fails naming "1F"
C9_Witness ==
    /\ op = "parse"
    /\ pc = "threw"
    /\ opts = Plain(10, 3)
    /\ text = <<"0", "3", "1", "1", "F">>
    /\ units = << <<"0", "3", "1">>, <<"1", "F">> >>
    /\ err = Error("TypeError", "parse error", <<"1", "F">>)

----------------------------------------------------------------------------
(* C4 *)

\* the floor table as the options documentation states it
DocumentedFloor(radix) ==
    CASE radix = 16 -> 2 [] radix = 10 -> 3 [] radix = 8 -> 3 [] radix = 2 -> 8

IsInteger(v) == v.type = "number" /\ v.frac = 0
OptionsResolved == pc # "ready" /\ opts # NoOptions

----------------------------------------------------------------------------
(* C5 *)

ExactRadix(v) == IsInteger(v) /\ v.int \in {2, 8, 10, 16}

----------------------------------------------------------------------------
(* C6 *)

PositiveInteger(v) == IsInteger(v) /\ v.int > 0

\* C6: under the strict resolution a raw radix outside 2, 8, 10, 16 is a
\* TypeError naming the field, a raw width that is no positive integer is a
\* TypeError, and a positive integer width below the floor is a RangeError.
C6_StrictValidation ==
    (variant = "strict" /\ pc # "ready") =>
        LET radixGiven == raw.radix # Undefined
            widthGiven == raw.minIntegralDigits # Undefined
            radixOk == ~radixGiven \/ ExactRadix(raw.radix)
            radix == IF radixGiven /\ radixOk THEN raw.radix.int ELSE 16
        IN /\ ~radixOk => (pc = "threw" /\ err.name = "TypeError"
                           /\ err.message = "radix")
           /\ (radixOk /\ widthGiven /\ ~PositiveInteger(raw.minIntegralDigits))
                 => (pc = "threw" /\ err.name = "TypeError")
           /\ (/\ radixOk
               /\ PositiveInteger(raw.minIntegralDigits)
               /\ raw.minIntegralDigits.int < DocumentedFloor(radix))
                 => (pc = "threw" /\ err.name = "RangeError")

----------------------------------------------------------------------------
(* C11 *)

HexUpperLetters == <<"A", "B", "C", "D", "E", "F">>
HexLowerLetters == <<"a", "b", "c", "d", "e", "f">>
HexLetters == {HexUpperLetters[i] : i \in 1..6} \cup {HexLowerLetters[i] : i \in 1..6}

\* the text with every hexadecimal letter in upper case, or in lower case
HexCase(s, from, to) ==
    [i \in 1..Len(s) |->
        IF \E k \in 1..6 : from[k] = s[i]
        THEN to[CHOOSE k \in 1..6 : from[k] = s[i]]
        ELSE s[i]]
UpperHex(s) == HexCase(s, HexLowerLetters, HexUpperLetters)
LowerHex(s) == HexCase(s, HexUpperLetters, HexLowerLetters)

\* what a parse call makes of a text: whether it throws, the classification,
\* and the bytes
ParseOutcome(t, o) ==
    LET p == _parse(t, o, _createByteRegex(o))
    IN [threw |-> p.threw, message |-> p.error.message,
        bytes |-> IF p.threw THEN << >> ELSE MapToUint8(p.ints)]

StateOutcome == [threw |-> pc = "threw", message |-> err.message, bytes |-> out]

\* the letters of the text can only be digits of units
PlainAffixes(o) ==
    (Chars(o.prefix) \cup Chars(o.suffix) \cup Chars(o.separator))
        \cap HexLetters = {}

\* C11: at radix 16 a parse gives the same bytes, or fails the same way, for
\* the text, for the text with its hexadecimal letters in upper case and for it
\* with them in lower case, and whatever the value of lowerCase.
C11_CaseInsensitive ==
    (op = "parse" /\ ParseDone /\ opts.radix = 16 /\ PlainAffixes(opts)) =>
        /\ ParseOutcome(UpperHex(text), opts) = StateOutcome
        /\ ParseOutcome(LowerHex(text), opts) = StateOutcome
        /\ ParseOutcome(text, [opts EXCEPT !.lowerCase = ~@]) = StateOutcome
        /\ (/\ UpperHex(text) = _format(ExampleBytes, Plain(16, 2))
            /\ [opts EXCEPT !.lowerCase = FALSE] = Plain(16, 2))
              => (pc = "parsed" /\ out = ExampleBytes)

\* a text of mixed case parsed with lowerCase false
C11_Witness ==
    /\ op = "parse"
    /\ pc = "parsed"
    /\ opts = [Plain(16, 2) EXCEPT !.separator = <<" ", " ">>]
    /\ text = <<"a", "B", " ", " ", "c", "D">>
    /\ out = <<171, 205>>

----------------------------------------------------------------------------
(* C12 *)

\* the k-th stretch of UnitWidth characters of the formatted string when the
\* units are laid out with the separator between them
UnitSlice(k) ==
    LET start == (k - 1) * (UnitWidth(opts) + Len(opts.separator))
    IN SubSeq(str, start + 1, start + UnitWidth(opts))

Formatted == op \in {"format", "roundtrip"} /\ pc # "ready" /\ opts # NoOptions

\* C12: no byte has more digits than the floor of the radix, every unit of a
\* formatted string has exactly minIntegralDigits + Len(prefix) + Len(suffix)
\* characters, n >= 1 bytes format to n * unitWidth + (n - 1) * Len(separator)
\* characters, and with an empty separator parse segments the formatted string
\* into exactly the n units.
C12_FixedUnitWidth ==
    /\ Formatted =>
          /\ Len(bytes) >= 1 =>
                Len(str) = Len(bytes) * UnitWidth(opts)
                           + (Len(bytes) - 1) * Len(opts.separator)
          /\ \A k \in 1..Len(bytes) :
                /\ DigitCount(bytes[k], opts.radix) <= DocumentedFloor(opts.radix)
                /\ Len(ExpectedUnit(bytes[k], opts)) = UnitWidth(opts)
                /\ UnitSlice(k) = ExpectedUnit(bytes[k], opts)
    /\ (RoundTripDone /\ opts.separator = << >>) =>
          /\ Len(units) = Len(bytes)
          /\ \A k \in 1..Len(units) :
                /\ Len(units[k]) = UnitWidth(opts)
                /\ units[k] = UnitSlice(k)

\* two bytes with affixes, a raised width and no separator
C12_Witness ==
    /\ RoundTripDone
    /\ bytes = <<0, 255>>
    /\ opts.radix = 16
    /\ opts.minIntegralDigits = 3
    /\ opts.prefix = <<"x">>
    /\ opts.suffix = <<"0">>
    /\ opts.separator = << >>
    /\ str = <<"x","0","0","0","0","x","0","F","F","0">>
    /\ units = << <<"x","0","0","0","0">>, <<"x","0","F","F","0">> >>

----------------------------------------------------------------------------
(* C13 *)

\* the occurrences of the separator in the text, found left to right, each
\* search starting after the occurrence before it
RECURSIVE CountFrom(_, _, _)
CountFrom(t, sep, i) ==
    IF i + Len(sep) - 1 > Len(t) THEN 0
    ELSE IF SubSeq(t, i, i + Len(sep) - 1) = sep
         THEN 1 + CountFrom(t, sep, i + Len(sep))
         ELSE CountFrom(t, sep, i + 1)
Occurrences(t, sep) == CountFrom(t, sep, 1)

\* the last of those occurrences ends the text
RECURSIVE EndsAtFrom(_, _, _, _)
EndsAtFrom(t, sep, i, hit) ==
    IF i + Len(sep) - 1 > Len(t) THEN hit /\ i = Len(t) + 1
    ELSE IF SubSeq(t, i, i + Len(sep) - 1) = sep
         THEN EndsAtFrom(t, sep, i + Len(sep), TRUE)
         ELSE EndsAtFrom(t, sep, i + 1, FALSE)
EndsWithOccurrence(t, sep) == EndsAtFrom(t, sep, 1, FALSE)

RECURSIVE OnlySeparatorsFrom(_, _, _)
OnlySeparatorsFrom(t, sep, i) ==
    IF i > Len(t) THEN TRUE
    ELSE /\ i + Len(sep) - 1 <= Len(t)
         /\ SubSeq(t, i, i + Len(sep) - 1) = sep
         /\ OnlySeparatorsFrom(t, sep, i + Len(sep))
OnlySeparators(t, sep) == t # << >> /\ OnlySeparatorsFrom(t, sep, 1)

\* a parse that returns gives no bytes exactly for the empty text, and one
\* byte per unit for any other
OneBytePerUnit ==
    (ParseDone /\ pc = "parsed") =>
        /\ (out = << >>) = (text = << >>)
        /\ (text # << >> /\ opts.separator = << >>) =>
              /\ Len(text) % UnitWidth(opts) = 0
              /\ Len(out) = Len(text) \div UnitWidth(opts)
        /\ (text # << >> /\ opts.separator # << >>) =>
              Len(out) = Occurrences(text, opts.separator) + 1

\* C13 as stated: parse returns no bytes only for the empty text and one byte
\* per unit otherwise, and every text that consists of separators or ends
\* with the separator fails.
C13_TrailingSeparatorFails ==
    /\ OneBytePerUnit
    /\ (/\ ParseDone
        /\ opts.separator # << >>
        /\ text # << >>
        /\ (OnlySeparators(text, opts.separator)
            \/ endsWith(text, opts.separator)))
          => pc = "threw"

\* C13 amended: parse returns no bytes only for the empty text and one byte
\* per unit otherwise, the separator occurrences being those found left to
\* right without overlap; a text that consists of separators, or ends with
\* such an occurrence, or has any empty unit, fails with that unit kept.
C13_EmptyUnitFails ==
    /\ OneBytePerUnit
    /\ (ParseDone /\ opts.separator # << >> /\ text # << >>) =>
          /\ Len(units) = Occurrences(text, opts.separator) + 1
          /\ (\E k \in 1..Len(units) : units[k] = << >>) => pc = "threw"
          /\ OnlySeparators(text, opts.separator) => pc = "threw"
          /\ EndsWithOccurrence(text, opts.separator) =>
                (pc = "threw" /\ units[Len(units)] = << >>)

\* "0Fx" with separator "x": the empty unit after the separator is decoded
C13_Witness ==
    /\ op = "parse"
    /\ pc = "threw"
    /\ opts = [Plain(16, 2) EXCEPT !.separator = <<"x">>]
    /\ text = <<"0", "F", "x">>
    /\ EndsWithOccurrence(text, opts.separator)
    /\ units = << <<"0", "F">>, << >> >>
    /\ examined = 2
    /\ err = Error("TypeError", "parse error", << >>)

====
